---- MODULE Spec2Model ----
(***************************************************************************)
(* Model of metamod/osdep.h: the operating-system dependent primitives of  *)
(* Metamod (mutex, condition variable, detached thread creation, and the   *)
(* contained call os_safe_call), on both backings the header selects at    *)
(* build time (linux: pthreads; _WIN32: critical section + event).         *)
(***************************************************************************)
EXTENDS Integers, Sequences, FiniteSets, TLC

\* ------------------------------------------------------------------ bounds
NThreads == 3
MaxOps == 6
MaxCounterOps == 8
MaxMisuseOps == 4
MaxSpawns == 3
MaxCalls == 4
MaxLoaderOps == 5

Threads == 1..NThreads
Slots == 1..MaxSpawns

\* ------------------------------------------------------- program constants
THREAD_OK == 0

NoOwner == 0
\* A critical section damaged by a LeaveCriticalSection of a non-owner: no
\* thread can enter it any more.
Corrupt == 0 - 1

VARIABLES
    backing,      \* "linux" | "win32": the #ifdef branch compiled in
    singleWaiter, \* client discipline: only thread 1 ever calls COND_WAIT
    mutexOwner,   \* MUTEX_T: NoOwner, the owning thread, or Corrupt
    condState,    \* COND_T: "uninit" | "valid" | "NULL" (CreateEvent failed)
    event,        \* win32: the auto-reset event is signaled
    condWaiters,  \* linux: threads blocked inside pthread_cond_wait
    pc,           \* per thread: position in the call it is executing
    tmp,          \* per thread: the counter value read by the increment
    wret,         \* per thread: DWORD ret of WaitForSingleObject
    ret,          \* per thread: return value of its last completed call
    logged,       \* per thread: its last completed call called META_ERROR
    lastCall,     \* per thread: name of its last completed call
    counter,      \* the shared counter the mutex guards
    opsLeft,      \* calls the clients may still start
    incsBy,       \* history: increments completed by each thread
    nsig,         \* history: successful COND_SIGNALs since the thread released
                  \* the mutex inside its current COND_WAIT (saturates at 2)
    sigPending,   \* history: a COND_SIGNAL returned 0 since the last wake-up
    sigCalls,     \* history: COND_SIGNAL calls that returned 0
    wakeups,      \* history: COND_WAIT calls woken (returned 0)
    misuse,       \* history: threads whose last call was a MUTEX_UNLOCK of a
                  \* mutex they did not own
    tcPc,         \* THREAD_CREATE: position of the creator
    tcSlot,       \* THREAD_CREATE: index of the current/last call
    tcRet,        \* THREAD_CREATE: return value per call
    tcReturned,   \* THREAD_CREATE: the calls that have returned
    tcLogged,     \* THREAD_CREATE: META_ERROR called, per call
    thr,          \* per call: state of the thread it created
    flag,         \* per call: the shared flag the entry point sets
    runs,         \* per call: how often the entry point ran
    seen,         \* per call: the creator has observed the flag set
    scState,      \* os_safe_call: "NotStarted" | "Invoking" | "Completed" | "Faulted"
    scFn,         \* os_safe_call: behaviour of the function being called
    armed,        \* os_safe_call: the fault boundary is established
    hostAlive,    \* the host process has not been terminated
    scHist,       \* history: <<function behaviour, result>> of finished calls
    ldHandle,     \* DLHANDLE of the module: "none" | "open" | "closed"
    ldErr,        \* the loader's last-error slot: NoError or a description
    ldHist        \* history: the loader calls made, in order, with results

syncVars == <<backing, singleWaiter, mutexOwner, condState, event, condWaiters,
              pc, tmp, wret, ret, logged, lastCall, counter, opsLeft, incsBy,
              nsig, sigPending, sigCalls, wakeups, misuse>>
threadVars == <<tcPc, tcSlot, tcRet, tcReturned, tcLogged, thr, flag, runs, seen>>
safeVars == <<scState, scFn, armed, hostAlive, scHist>>
loaderVars == <<ldHandle, ldErr, ldHist>>
vars == <<syncVars, threadVars, safeVars, loaderVars>>

\* ------------------------------------------------------------ small helpers
RECURSIVE SumOver(_, _)
SumOver(f, S) == IF S = {} THEN 0
                 ELSE LET x == CHOOSE y \in S : TRUE
                      IN f[x] + SumOver(f, S \ {x})

\* The call `call` of thread t returns r; log says whether it called META_ERROR.
Return(t, call, r, log) ==
    /\ ret' = [ret EXCEPT ![t] = r]
    /\ logged' = [logged EXCEPT ![t] = log]
    /\ lastCall' = [lastCall EXCEPT ![t] = call]

\* The clients may start another call (the bound of the model).
MayStart == condState # "uninit" /\ opsLeft > 0
Started == opsLeft' = opsLeft - 1

\* Threads that have released the mutex inside COND_WAIT and not yet been woken.
InWait(t) == pc[t] \in {"cw_wfso", "cw_blocked"}
Bump(n) == IF n < 2 THEN n + 1 ELSE n
NoteSignal == nsig' = [t \in Threads |-> IF InWait(t) THEN Bump(nsig[t]) ELSE nsig[t]]

\* ------------------------------------------------- native mutex operations
\* pthread_mutex_lock / EnterCriticalSection: blocks until the mutex is free.
\* (Recursive entry is never attempted by the clients modelled here.)
CanAcquire(t) == mutexOwner = NoOwner

pthread_mutex_lock(t) == CanAcquire(t) /\ mutexOwner' = t
EnterCriticalSection(t) == CanAcquire(t) /\ mutexOwner' = t

\* ------------------------------------------------------------- MUTEX_LOCK
MUTEX_LOCK_linux(t) ==
    /\ backing = "linux"
    /\ pthread_mutex_lock(t)
    /\ Return(t, "MUTEX_LOCK", THREAD_OK, FALSE)

\* Faulty variant: the critical section is only tried, and the result ignored
MUTEX_LOCK_win32_TryOnly(t) ==
    /\ backing = "win32"
    /\ mutexOwner' = IF CanAcquire(t) THEN t ELSE mutexOwner
    /\ Return(t, "MUTEX_LOCK", THREAD_OK, FALSE)

MUTEX_LOCK_win32(t) ==
    /\ backing = "win32"
    /\ EnterCriticalSection(t)
    /\ Return(t, "MUTEX_LOCK", THREAD_OK, FALSE)

Lock(t) ==
    /\ pc[t] = "idle"
    /\ MayStart /\ Started
    /\ (MUTEX_LOCK_linux(t) \/ MUTEX_LOCK_win32(t))
    /\ pc' = [pc EXCEPT ![t] = "held"]
    /\ misuse' = misuse \ {t}
    /\ UNCHANGED <<backing, singleWaiter, condState, event, condWaiters, tmp,
                   wret, counter, incsBy, nsig, sigPending, sigCalls, wakeups>>
    /\ UNCHANGED <<threadVars, safeVars, loaderVars>>

\* ----------------------------------------------------------- MUTEX_UNLOCK
\* pthread_mutex_unlock on a default mutex.  Called by the owner it releases
\* the mutex and returns 0.  Called by a thread that is not the owner the
\* behaviour is undefined: an error-checking build returns EPERM (1) and
\* changes nothing, a "fast" mutex is released (or, if free, left alone) and
\* the call returns 0.
pthread_mutex_unlock(t, r) ==
    IF mutexOwner = t
    THEN r = THREAD_OK /\ mutexOwner' = NoOwner
    ELSE \/ r = 1 /\ mutexOwner' = mutexOwner
         \/ r = THREAD_OK /\ mutexOwner' = NoOwner

\* LeaveCriticalSection returns void.  Called by a thread that is not the
\* owner "an error occurs that may cause another thread using
\* EnterCriticalSection to wait indefinitely".
LeaveCriticalSection(t) ==
    IF mutexOwner = t
    THEN mutexOwner' = NoOwner
    ELSE mutexOwner' \in {mutexOwner, NoOwner, Corrupt}

MUTEX_UNLOCK_linux(t) ==
    /\ backing = "linux"
    /\ \E r \in {THREAD_OK, 1} :
          /\ pthread_mutex_unlock(t, r)
          /\ Return(t, "MUTEX_UNLOCK", r, r # THREAD_OK)

MUTEX_UNLOCK_win32(t) ==
    /\ backing = "win32"
    /\ LeaveCriticalSection(t)
    /\ Return(t, "MUTEX_UNLOCK", THREAD_OK, FALSE)

\* The call was made by a thread that does not own the mutex.
NoteUnlock(t) ==
    misuse' = IF mutexOwner = t THEN misuse \ {t} ELSE misuse \cup {t}

Unlock(t) ==
    /\ pc[t] = "held"
    /\ (MUTEX_UNLOCK_linux(t) \/ MUTEX_UNLOCK_win32(t))
    /\ NoteUnlock(t)
    /\ pc' = [pc EXCEPT ![t] = "idle"]
    /\ UNCHANGED <<backing, singleWaiter, condState, event, condWaiters, tmp,
                   wret, counter, opsLeft, incsBy, nsig, sigPending, sigCalls,
                   wakeups>>
    /\ UNCHANGED <<threadVars, safeVars, loaderVars>>

\* A client breaks the contract: it calls MUTEX_UNLOCK without having locked.
MisuseUnlock(t) ==
    /\ pc[t] = "idle"
    /\ mutexOwner # t
    /\ MayStart /\ Started
    /\ (MUTEX_UNLOCK_linux(t) \/ MUTEX_UNLOCK_win32(t))
    /\ NoteUnlock(t)
    /\ UNCHANGED <<backing, singleWaiter, condState, event, condWaiters, pc,
                   tmp, wret, counter, incsBy, nsig, sigPending, sigCalls,
                   wakeups>>
    /\ UNCHANGED <<threadVars, safeVars, loaderVars>>

\* ------------------------------------- the guarded counter of the clients
IncRead(t) ==
    /\ pc[t] = "held"
    /\ MayStart /\ Started
    /\ tmp' = [tmp EXCEPT ![t] = counter]
    /\ pc' = [pc EXCEPT ![t] = "inc"]
    /\ UNCHANGED <<backing, singleWaiter, mutexOwner, condState, event,
                   condWaiters, wret, ret, logged, lastCall, counter, incsBy,
                   nsig, sigPending, sigCalls, wakeups, misuse>>
    /\ UNCHANGED <<threadVars, safeVars, loaderVars>>

IncWrite(t) ==
    /\ pc[t] = "inc"
    /\ counter' = tmp[t] + 1
    /\ tmp' = [tmp EXCEPT ![t] = 0]
    /\ incsBy' = [incsBy EXCEPT ![t] = @ + 1]
    /\ pc' = [pc EXCEPT ![t] = "held"]
    /\ UNCHANGED <<backing, singleWaiter, mutexOwner, condState, event,
                   condWaiters, wret, ret, logged, lastCall, opsLeft, nsig,
                   sigPending, sigCalls, wakeups, misuse>>
    /\ UNCHANGED <<threadVars, safeVars, loaderVars>>

\* --------------------------------------------------------------- COND_INIT
\* CreateEvent(NULL, FALSE, FALSE, NULL): the second argument is the
\* manual-reset flag, the third the initial state.
\* Faulty variant: the event is created manual-reset
CreateEvent_bManualReset_TRUE == TRUE

CreateEvent_bManualReset == FALSE
CreateEvent_bInitialState == FALSE

\* pthread_cond_init with default attributes does not fail.
COND_INIT_linux ==
    /\ backing = "linux"
    /\ condState' = "valid"
    /\ event' = event
    /\ Return(1, "COND_INIT", THREAD_OK, FALSE)

\* CreateEvent returns NULL on error; COND_INIT then logs and returns -1.
COND_INIT_win32 ==
    /\ backing = "win32"
    /\ \E h \in {"valid", "NULL"} :
          /\ condState' = h
          /\ event' = (h = "valid" /\ CreateEvent_bInitialState)
          /\ Return(1, "COND_INIT", IF h = "NULL" THEN 0 - 1 ELSE 0, h = "NULL")

CondInit ==
    /\ condState = "uninit"
    /\ (COND_INIT_linux \/ COND_INIT_win32)
    /\ UNCHANGED <<backing, singleWaiter, mutexOwner, condWaiters, pc, tmp,
                   wret, counter, opsLeft, incsBy, nsig, sigPending, sigCalls,
                   wakeups, misuse>>
    /\ UNCHANGED <<threadVars, safeVars, loaderVars>>

\* --------------------------------------------------------- COND_WAIT, linux
\* pthread_cond_wait: atomically releases the mutex and blocks on the
\* condition; once unblocked (by a signal or spuriously) it re-acquires the
\* mutex and returns 0.
MayWait(t) == singleWaiter => t = 1

CondWaitBlock_linux(t) ==
    /\ backing = "linux"
    /\ pc[t] = "held"
    /\ MayStart /\ Started /\ MayWait(t)
    /\ mutexOwner' = NoOwner
    /\ condWaiters' = condWaiters \cup {t}
    /\ nsig' = [nsig EXCEPT ![t] = 0]
    /\ pc' = [pc EXCEPT ![t] = "cw_blocked"]
    /\ UNCHANGED <<backing, singleWaiter, condState, event, tmp, wret, ret,
                   logged, lastCall, counter, incsBy, sigPending, sigCalls,
                   wakeups, misuse>>
    /\ UNCHANGED <<threadVars, safeVars, loaderVars>>

\* A spurious wake-up of a thread blocked in pthread_cond_wait.
SpuriousWake(t) ==
    /\ backing = "linux"
    /\ t \in condWaiters
    /\ condWaiters' = condWaiters \ {t}
    /\ UNCHANGED <<backing, singleWaiter, mutexOwner, condState, event, pc,
                   tmp, wret, ret, logged, lastCall, counter, opsLeft, incsBy,
                   nsig, sigPending, sigCalls, wakeups, misuse>>
    /\ UNCHANGED <<threadVars, safeVars, loaderVars>>

CondWaitReturn_linux(t) ==
    /\ backing = "linux"
    /\ pc[t] = "cw_blocked"
    /\ t \notin condWaiters
    /\ pthread_mutex_lock(t)
    /\ Return(t, "COND_WAIT", THREAD_OK, FALSE)
    /\ wakeups' = wakeups + 1
    /\ pc' = [pc EXCEPT ![t] = "held"]
    /\ UNCHANGED <<backing, singleWaiter, condState, event, condWaiters, tmp,
                   wret, counter, opsLeft, incsBy, nsig, sigPending, sigCalls,
                   misuse>>
    /\ UNCHANGED <<threadVars, safeVars, loaderVars>>

\* --------------------------------------------------------- COND_WAIT, win32
\* LeaveCriticalSection(mutex);
CondWaitLeave_win32(t) ==
    /\ backing = "win32"
    /\ pc[t] = "held"
    /\ MayStart /\ Started /\ MayWait(t)
    /\ LeaveCriticalSection(t)
    /\ nsig' = [nsig EXCEPT ![t] = 0]
    /\ pc' = [pc EXCEPT ![t] = "cw_wfso"]
    /\ UNCHANGED <<backing, singleWaiter, condState, event, condWaiters, tmp,
                   wret, ret, logged, lastCall, counter, incsBy, sigPending,
                   sigCalls, wakeups, misuse>>
    /\ UNCHANGED <<threadVars, safeVars, loaderVars>>

\* ret=WaitForSingleObject(*cond, INFINITE): fails at once on a NULL handle,
\* otherwise blocks until the event is signaled; an auto-reset event is reset
\* when it releases the waiting thread.
WaitForSingleObject(t) ==
    \/ /\ condState = "NULL"
       /\ wret' = [wret EXCEPT ![t] = "WAIT_FAILED"]
       /\ UNCHANGED <<event, sigPending>>
    \/ /\ condState = "valid"
       /\ event
       /\ event' = CreateEvent_bManualReset
       /\ wret' = [wret EXCEPT ![t] = "WAIT_OBJECT_0"]
       /\ sigPending' = FALSE

CondWaitBlock_win32(t) ==
    /\ backing = "win32"
    /\ pc[t] = "cw_wfso"
    /\ WaitForSingleObject(t)
    /\ pc' = [pc EXCEPT ![t] = "cw_enter"]
    /\ UNCHANGED <<backing, singleWaiter, mutexOwner, condState, condWaiters,
                   tmp, ret, logged, lastCall, counter, opsLeft, incsBy, nsig,
                   sigCalls, wakeups, misuse>>
    /\ UNCHANGED <<threadVars, safeVars, loaderVars>>

\* Faulty variant: the result is tested before the critical section is re-entered
CondWaitReturn_win32_EarlyError(t) ==
    /\ backing = "win32"
    /\ pc[t] = "cw_enter"
    /\ IF wret[t] = "WAIT_OBJECT_0"
       THEN EnterCriticalSection(t) /\ Return(t, "COND_WAIT", 0, FALSE)
       ELSE mutexOwner' = mutexOwner /\ Return(t, "COND_WAIT", 0 - 1, TRUE)

\* EnterCriticalSection(mutex); then 0 for WAIT_OBJECT_0, else log and -1.
CondWaitReturn_win32(t) ==
    /\ backing = "win32"
    /\ pc[t] = "cw_enter"
    /\ EnterCriticalSection(t)
    /\ IF wret[t] = "WAIT_OBJECT_0"
       THEN Return(t, "COND_WAIT", 0, FALSE)
       ELSE Return(t, "COND_WAIT", 0 - 1, TRUE)

CondWaitReturn(t) ==
    /\ CondWaitReturn_win32(t)
    /\ pc' = [pc EXCEPT ![t] = "held"]
    /\ wret' = [wret EXCEPT ![t] = "none"]
    /\ wakeups' = IF wret[t] = "WAIT_OBJECT_0" THEN wakeups + 1 ELSE wakeups
    /\ UNCHANGED <<backing, singleWaiter, condState, event, condWaiters, tmp,
                   counter, opsLeft, incsBy, nsig, sigPending, sigCalls,
                   misuse>>
    /\ UNCHANGED <<threadVars, safeVars, loaderVars>>

\* -------------------------------------------------------------- COND_SIGNAL
\* pthread_cond_signal: unblocks one of the threads blocked on the condition,
\* if any; returns 0.
COND_SIGNAL_linux(t) ==
    /\ backing = "linux"
    /\ \/ condWaiters = {} /\ condWaiters' = condWaiters
       \/ \E w \in condWaiters : condWaiters' = condWaiters \ {w}
    /\ event' = event
    /\ Return(t, "COND_SIGNAL", THREAD_OK, FALSE)
    /\ sigCalls' = sigCalls + 1
    /\ sigPending' = sigPending
    /\ NoteSignal

\* Faulty variant: the event is not left signaled
SetEvent_Forgets == event' = FALSE

\* SetEvent on a valid handle sets the event to the signaled state.
SetEvent == event' = TRUE

\* ret=SetEvent(*cond): zero on failure (a NULL handle), then log and -1.
COND_SIGNAL_win32(t) ==
    /\ backing = "win32"
    /\ condWaiters' = condWaiters
    /\ IF condState = "NULL"
       THEN /\ event' = event
            /\ Return(t, "COND_SIGNAL", 0 - 1, TRUE)
            /\ UNCHANGED <<sigCalls, sigPending, nsig>>
       ELSE /\ SetEvent
            /\ Return(t, "COND_SIGNAL", 0, FALSE)
            /\ sigCalls' = sigCalls + 1
            /\ sigPending' = TRUE
            /\ NoteSignal

CondSignal(t) ==
    /\ pc[t] \in {"idle", "held"}
    /\ MayStart /\ Started
    /\ (COND_SIGNAL_linux(t) \/ COND_SIGNAL_win32(t))
    /\ UNCHANGED <<backing, singleWaiter, mutexOwner, condState, pc, tmp, wret,
                   counter, incsBy, wakeups, misuse>>
    /\ UNCHANGED <<threadVars, safeVars, loaderVars>>

\* ------------------------------------------------------------ initial states
\* The parts of the state a specification does not exercise stay as here.
SyncOff ==
    /\ backing \in {"linux", "win32"}
    /\ singleWaiter = FALSE
    /\ mutexOwner = NoOwner
    /\ condState = "uninit"
    /\ event = FALSE
    /\ condWaiters = {}
    /\ pc = [t \in Threads |-> "idle"]
    /\ tmp = [t \in Threads |-> 0]
    /\ wret = [t \in Threads |-> "none"]
    /\ ret = [t \in Threads |-> 0]
    /\ logged = [t \in Threads |-> FALSE]
    /\ lastCall = [t \in Threads |-> "none"]
    /\ counter = 0
    /\ opsLeft = 0
    /\ incsBy = [t \in Threads |-> 0]
    /\ nsig = [t \in Threads |-> 0]
    /\ sigPending = FALSE
    /\ sigCalls = 0
    /\ wakeups = 0
    /\ misuse = {}

ThreadOff ==
    /\ tcPc = "off"
    /\ tcSlot = 0
    /\ tcRet = [k \in Slots |-> 0]
    /\ tcReturned = {}
    /\ tcLogged = [k \in Slots |-> FALSE]
    /\ thr = [k \in Slots |-> "none"]
    /\ flag = [k \in Slots |-> FALSE]
    /\ runs = [k \in Slots |-> 0]
    /\ seen = [k \in Slots |-> FALSE]

SafeOff ==
    /\ scState = "NotStarted"
    /\ scFn = "none"
    /\ armed = FALSE
    /\ hostAlive = TRUE
    /\ scHist = <<>>

NoError == <<>>

LoaderOff ==
    /\ ldHandle = "none"
    /\ ldErr = NoError
    /\ ldHist = <<>>

\* Mutex and condition variable: MUTEX_INIT has succeeded, COND_INIT is still
\* to be called; the clients then lock, unlock, wait and signal.
Init ==
    /\ backing \in {"linux", "win32"}
    /\ singleWaiter \in BOOLEAN
    /\ mutexOwner = NoOwner
    /\ condState = "uninit"
    /\ event = FALSE
    /\ condWaiters = {}
    /\ pc = [t \in Threads |-> "idle"]
    /\ tmp = [t \in Threads |-> 0]
    /\ wret = [t \in Threads |-> "none"]
    /\ ret = [t \in Threads |-> 0]
    /\ logged = [t \in Threads |-> FALSE]
    /\ lastCall = [t \in Threads |-> "none"]
    /\ counter = 0
    /\ opsLeft = MaxOps
    /\ incsBy = [t \in Threads |-> 0]
    /\ nsig = [t \in Threads |-> 0]
    /\ sigPending = FALSE
    /\ sigCalls = 0
    /\ wakeups = 0
    /\ misuse = {}
    /\ ThreadOff
    /\ SafeOff
    /\ LoaderOff

\* The same with the clients keeping to one waiter per condition variable.
InitSingleWaiter == Init /\ singleWaiter

\* The mutex-guarded counter: MUTEX_INIT and COND_INIT have succeeded; the
\* clients only lock, increment and unlock.
InitCounter ==
    /\ backing \in {"linux", "win32"}
    /\ singleWaiter = FALSE
    /\ mutexOwner = NoOwner
    /\ condState = "valid"
    /\ event = FALSE
    /\ condWaiters = {}
    /\ pc = [t \in Threads |-> "idle"]
    /\ tmp = [t \in Threads |-> 0]
    /\ wret = [t \in Threads |-> "none"]
    /\ ret = [t \in Threads |-> 0]
    /\ logged = [t \in Threads |-> FALSE]
    /\ lastCall = [t \in Threads |-> "none"]
    /\ counter = 0
    /\ opsLeft = MaxCounterOps
    /\ incsBy = [t \in Threads |-> 0]
    /\ nsig = [t \in Threads |-> 0]
    /\ sigPending = FALSE
    /\ sigCalls = 0
    /\ wakeups = 0
    /\ misuse = {}
    /\ ThreadOff
    /\ SafeOff
    /\ LoaderOff

ThreadStep(t) ==
    \/ Lock(t)
    \/ Unlock(t)
    \/ CondWaitBlock_linux(t)
    \/ CondWaitReturn_linux(t)
    \/ CondWaitLeave_win32(t)
    \/ CondWaitBlock_win32(t)
    \/ CondWaitReturn(t)
    \/ CondSignal(t)

Next ==
    \/ CondInit
    \/ \E t \in Threads : ThreadStep(t)
    \/ \E t \in Threads : SpuriousWake(t)

Spec == Init /\ [][Next]_vars

CounterStep(t) ==
    \/ Lock(t)
    \/ Unlock(t)
    \/ IncRead(t)
    \/ IncWrite(t)

NextCounter == \E t \in Threads : CounterStep(t)

SpecCounter == InitCounter /\ [][NextCounter]_vars

\* Mutex with a client that breaks the contract of MUTEX_UNLOCK.
InitMisuse ==
    /\ backing \in {"linux", "win32"}
    /\ singleWaiter = FALSE
    /\ mutexOwner = NoOwner
    /\ condState = "valid"
    /\ event = FALSE
    /\ condWaiters = {}
    /\ pc = [t \in Threads |-> "idle"]
    /\ tmp = [t \in Threads |-> 0]
    /\ wret = [t \in Threads |-> "none"]
    /\ ret = [t \in Threads |-> 0]
    /\ logged = [t \in Threads |-> FALSE]
    /\ lastCall = [t \in Threads |-> "none"]
    /\ counter = 0
    /\ opsLeft = MaxMisuseOps
    /\ incsBy = [t \in Threads |-> 0]
    /\ nsig = [t \in Threads |-> 0]
    /\ sigPending = FALSE
    /\ sigCalls = 0
    /\ wakeups = 0
    /\ misuse = {}
    /\ ThreadOff
    /\ SafeOff
    /\ LoaderOff

MisuseStep(t) ==
    \/ Lock(t)
    \/ Unlock(t)
    \/ MisuseUnlock(t)

NextMisuse == \E t \in Threads : MisuseStep(t)

SpecMisuse == InitMisuse /\ [][NextMisuse]_vars

\* ------------------------------------------------------------ THREAD_CREATE
\* The creator calls THREAD_CREATE up to MaxSpawns times; call k creates
\* thread k, whose entry point sets flag[k].
InCall == tcPc \in {"detach", "check_ok", "check_null"}

ReturnFromCreate(k, r, log) ==
    /\ tcRet' = [tcRet EXCEPT ![k] = r]
    /\ tcLogged' = [tcLogged EXCEPT ![k] = log]
    /\ tcReturned' = tcReturned \cup {k}
    /\ tcPc' = "idle"

\* ret=pthread_create(tid, NULL, func, NULL): on success the new thread
\* exists and may run at once; on failure (EAGAIN, 11) log and return ret.
ThreadCreate_linux ==
    /\ backing = "linux"
    /\ tcPc = "idle"
    /\ tcSlot < MaxSpawns
    /\ tcSlot' = tcSlot + 1
    /\ \/ /\ thr' = [thr EXCEPT ![tcSlot + 1] = "started"]
          /\ tcPc' = "detach"
          /\ UNCHANGED <<tcRet, tcLogged, tcReturned>>
       \/ /\ ReturnFromCreate(tcSlot + 1, 11, TRUE)
          /\ thr' = thr
    /\ UNCHANGED <<flag, runs, seen>>
    /\ UNCHANGED <<syncVars, safeVars, loaderVars>>

\* ret=pthread_detach(*tid): log if it fails (EINVAL 22, ESRCH 3); return ret.
ThreadDetach_linux ==
    /\ backing = "linux"
    /\ tcPc = "detach"
    /\ \E r \in {0, 3, 22} : ReturnFromCreate(tcSlot, r, r # 0)
    /\ UNCHANGED <<tcSlot, thr, flag, runs, seen>>
    /\ UNCHANGED <<syncVars, safeVars, loaderVars>>

\* ret=CreateThread(NULL, 0, func, NULL, 0, tid): NULL on failure; with
\* creation flags 0 the new thread runs at once.
ThreadCreate_win32 ==
    /\ backing = "win32"
    /\ tcPc = "idle"
    /\ tcSlot < MaxSpawns
    /\ tcSlot' = tcSlot + 1
    /\ \/ /\ thr' = [thr EXCEPT ![tcSlot + 1] = "started"]
          /\ tcPc' = "check_ok"
       \/ /\ thr' = thr
          /\ tcPc' = "check_null"
    /\ UNCHANGED <<tcRet, tcLogged, tcReturned, flag, runs, seen>>
    /\ UNCHANGED <<syncVars, safeVars, loaderVars>>

\* Faulty variant: the win32 convention is not inverted: return(ret!=NULL)
ThreadReturn_win32_NotInverted ==
    /\ backing = "win32"
    /\ tcPc \in {"check_ok", "check_null"}
    /\ ReturnFromCreate(tcSlot, IF tcPc = "check_null" THEN 0 ELSE 1,
                        tcPc = "check_null")
    /\ UNCHANGED <<tcSlot, thr, flag, runs, seen>>
    /\ UNCHANGED <<syncVars, safeVars, loaderVars>>

\* if(ret==NULL) META_ERROR(...); return(ret==NULL);
ThreadReturn_win32 ==
    /\ backing = "win32"
    /\ tcPc \in {"check_ok", "check_null"}
    /\ ReturnFromCreate(tcSlot, IF tcPc = "check_null" THEN 1 ELSE 0,
                        tcPc = "check_null")
    /\ UNCHANGED <<tcSlot, thr, flag, runs, seen>>
    /\ UNCHANGED <<syncVars, safeVars, loaderVars>>

\* The created thread runs the entry point, which sets the shared flag, and
\* exits; nobody joins it.
Entry(k) ==
    /\ thr[k] = "started"
    /\ flag' = [flag EXCEPT ![k] = TRUE]
    /\ runs' = [runs EXCEPT ![k] = @ + 1]
    /\ thr' = [thr EXCEPT ![k] = "exited"]
    /\ UNCHANGED <<tcPc, tcSlot, tcRet, tcReturned, tcLogged, seen>>
    /\ UNCHANGED <<syncVars, safeVars, loaderVars>>

\* The creator, back from THREAD_CREATE, polls the flag of a thread.
Observe(k) ==
    /\ tcPc = "idle"
    /\ k \in tcReturned
    /\ ~seen[k]
    /\ seen' = [seen EXCEPT ![k] = flag[k]]
    /\ UNCHANGED <<tcPc, tcSlot, tcRet, tcReturned, tcLogged, thr, flag, runs>>
    /\ UNCHANGED <<syncVars, safeVars, loaderVars>>

InitThread ==
    /\ SyncOff
    /\ tcPc = "idle"
    /\ tcSlot = 0
    /\ tcRet = [k \in Slots |-> 0]
    /\ tcReturned = {}
    /\ tcLogged = [k \in Slots |-> FALSE]
    /\ thr = [k \in Slots |-> "none"]
    /\ flag = [k \in Slots |-> FALSE]
    /\ runs = [k \in Slots |-> 0]
    /\ seen = [k \in Slots |-> FALSE]
    /\ SafeOff
    /\ LoaderOff

CreatorReturn == ThreadDetach_linux \/ ThreadReturn_win32

NextThread ==
    \/ ThreadCreate_linux
    \/ ThreadCreate_win32
    \/ CreatorReturn
    \/ \E k \in Slots : Entry(k)
    \/ \E k \in Slots : Observe(k)

SpecThread == InitThread /\ [][NextThread]_vars

\* The scheduler is fair to the creator inside THREAD_CREATE and to every
\* created thread, and the creator keeps polling; no new call is forced.
FairSpecThread ==
    /\ SpecThread
    /\ WF_vars(CreatorReturn)
    /\ \A k \in Slots : WF_vars(Entry(k)) /\ WF_vars(Observe(k))

\* ------------------------------------------------------------- os_safe_call
\* mBOOL os_safe_call(REG_CMD_FN pfn): calls pfn inside a fault boundary
\* established for this call alone.
Behaviours == {"returns", "faults"}

\* Faulty variant: the boundary is not established again after a call that faulted
SafeCallArm_OnceFaulted ==
    scHist = <<>> \/ scHist[Len(scHist)][2] # "Faulted"

SafeCallArm == TRUE

SafeCallBegin ==
    /\ hostAlive
    /\ scState = "NotStarted"
    /\ Len(scHist) < MaxCalls
    /\ \E fn \in Behaviours : scFn' = fn
    /\ armed' = SafeCallArm
    /\ scState' = "Invoking"
    /\ UNCHANGED <<hostAlive, scHist>>
    /\ UNCHANGED <<syncVars, threadVars, loaderVars>>

\* Faulty variant: the boundary is left in place when the callee faulted
SafeCallDisarm_NotOnFault(result) == result = "Faulted"

\* The boundary is released on leaving the call, whatever the outcome.
SafeCallDisarm(result) == FALSE

\* The callee runs: it returns, or it faults; a fault inside the boundary is
\* turned into the Faulted result, a fault outside it terminates the host.
\* Leaving Invoking releases the boundary.
SafeCallInvoke ==
    /\ hostAlive
    /\ scState = "Invoking"
    /\ IF scFn = "returns"
       THEN /\ scState' = "Completed"
            /\ armed' = SafeCallDisarm("Completed")
            /\ hostAlive' = hostAlive
       ELSE IF armed
            THEN /\ scState' = "Faulted"
                 /\ armed' = SafeCallDisarm("Faulted")
                 /\ hostAlive' = hostAlive
            ELSE /\ scState' = scState
                 /\ armed' = armed
                 /\ hostAlive' = FALSE
    /\ UNCHANGED <<scFn, scHist>>
    /\ UNCHANGED <<syncVars, threadVars, loaderVars>>

\* The result is returned to the caller, which may start the next call.
SafeCallEnd ==
    /\ scState \in {"Completed", "Faulted"}
    /\ scHist' = Append(scHist, <<scFn, scState>>)
    /\ scState' = "NotStarted"
    /\ scFn' = "none"
    /\ UNCHANGED <<armed, hostAlive>>
    /\ UNCHANGED <<syncVars, threadVars, loaderVars>>

InitSafe == SyncOff /\ ThreadOff /\ SafeOff /\ LoaderOff

NextSafe == SafeCallBegin \/ SafeCallInvoke \/ SafeCallEnd

SpecSafe == InitSafe /\ [][NextSafe]_vars

\* ------------------------------------------ DLOPEN, DLSYM, DLCLOSE, DLERROR
\* One calling context works on one module.  "module.so" exists and exports
\* "exported"; "missing.so" is not found, "corrupt.so" fails to initialise,
\* and "nonexistent_symbol" is not exported.
Paths == {"module.so", "missing.so", "corrupt.so"}
Symbols == {"exported", "nonexistent_symbol"}
Exports == {"exported"}

\* The description the loader records for a failing call.
Desc(op, arg) == <<op, arg>>

MayCall == Len(ldHist) < MaxLoaderOps

NoteCall(op, arg, res, r, ok, err) ==
    ldHist' = Append(ldHist, [op |-> op, arg |-> arg, res |-> res, ret |-> r,
                              ok |-> ok, err |-> err, h |-> ldHandle'])

\* Faulty variant: the slot keeps the first failure until it is read.
dl_set_error_KeepsFirst(slot, desc) == IF slot = NoError THEN desc ELSE slot

\* A failing native loader call stores its description in the last-error
\* slot (dlerror's buffer, the thread's GetLastError code), replacing what
\* was there.
dl_set_error(slot, desc) == desc

\* A successful native loader call may leave the slot alone or reset it.
dl_after_success(slot) == {slot, NoError}

dlopen(filename) == IF filename = "module.so" THEN "handle" ELSE "NULL"

LoadLibrary(filename) == IF filename = "module.so" THEN "handle" ELSE "NULL"

\* Faulty variant: the lookup falls through to some other module's symbol.
dlsym_FindsAnything(name) == "ptr"

dlsym(name) == IF name \in Exports THEN "ptr" ELSE "NULL"

GetProcAddress(name) == IF name \in Exports THEN "ptr" ELSE "NULL"

\* The common shape of DLOPEN on both backings: h is what the native call
\* returned.
LoaderOpened(filename, h) ==
    /\ IF h = "NULL"
       THEN /\ ldHandle' = ldHandle
            /\ ldErr' = dl_set_error(ldErr, Desc("DLOPEN", filename))
       ELSE /\ ldHandle' = "open"
            /\ ldErr' \in dl_after_success(ldErr)
    /\ NoteCall("DLOPEN", filename, h, 0, h # "NULL", NoError)
    /\ UNCHANGED <<syncVars, threadVars, safeVars>>

DLOPEN_linux(filename) ==
    /\ MayCall
    /\ ldHandle # "open"
    /\ LoaderOpened(filename, dlopen(filename))

DLOPEN_win32(filename) ==
    /\ MayCall
    /\ ldHandle # "open"
    /\ LoaderOpened(filename, LoadLibrary(filename))

DLOPEN(filename) ==
    \/ backing = "linux" /\ DLOPEN_linux(filename)
    \/ backing = "win32" /\ DLOPEN_win32(filename)

\* DLSYM returns the native lookup's result; the handle is passed by value
\* and not touched.
LoaderLooked(name, p) ==
    /\ ldHandle' = ldHandle
    /\ IF p = "NULL"
       THEN ldErr' = dl_set_error(ldErr, Desc("DLSYM", name))
       ELSE ldErr' \in dl_after_success(ldErr)
    /\ NoteCall("DLSYM", name, p, 0, p # "NULL", NoError)
    /\ UNCHANGED <<syncVars, threadVars, safeVars>>

DLSYM_linux(name) ==
    /\ MayCall
    /\ ldHandle = "open"
    /\ LoaderLooked(name, dlsym(name))

DLSYM_win32(name) ==
    /\ MayCall
    /\ ldHandle = "open"
    /\ LoaderLooked(name, GetProcAddress(name))

DLSYM(name) ==
    \/ backing = "linux" /\ DLSYM_linux(name)
    \/ backing = "win32" /\ DLSYM_win32(name)

\* The common shape of DLCLOSE: released says whether the native release
\* succeeded, r is what DLCLOSE returns.
LoaderReleased(released, r) ==
    /\ IF released
       THEN /\ ldHandle' = "closed"
            /\ ldErr' \in dl_after_success(ldErr)
       ELSE /\ ldHandle' = ldHandle
            /\ ldErr' = dl_set_error(ldErr, Desc("DLCLOSE", "handle"))
    /\ NoteCall("DLCLOSE", "handle", "none", r, released, NoError)
    /\ UNCHANGED <<syncVars, threadVars, safeVars>>

\* dlclose returns 0 on success and non-zero on failure; DLCLOSE passes the
\* value through.
DLCLOSE_linux ==
    /\ MayCall
    /\ ldHandle = "open"
    /\ \E r \in {0, 1, 0 - 1} : LoaderReleased(r = 0, r)

\* Faulty variant: FreeLibrary's result passed through.
LogicalNot_Missing(b) == b

\* C's "!" on an int.
LogicalNot(b) == IF b = 0 THEN 1 ELSE 0

\* FreeLibrary returns non-zero on success and zero on failure.
DLCLOSE_win32 ==
    /\ MayCall
    /\ ldHandle = "open"
    /\ \E b \in {0, 1} : LoaderReleased(b # 0, LogicalNot(b))

DLCLOSE ==
    \/ backing = "linux" /\ DLCLOSE_linux
    \/ backing = "win32" /\ DLCLOSE_win32

\* dlerror returns the description of the most recent failure since it was
\* last called, or NULL, and clears the slot.
DLERROR_linux ==
    /\ MayCall
    /\ ldErr' = NoError
    /\ ldHandle' = ldHandle
    /\ NoteCall("DLERROR", "none", "none", 0, TRUE, ldErr)
    /\ UNCHANGED <<syncVars, threadVars, safeVars>>

\* str_GetLastError formats the thread's last-error code; reading the code
\* does not reset it.
str_GetLastError == ldErr

DLERROR_win32 ==
    /\ MayCall
    /\ ldErr' = ldErr
    /\ ldHandle' = ldHandle
    /\ NoteCall("DLERROR", "none", "none", 0, TRUE, str_GetLastError)
    /\ UNCHANGED <<syncVars, threadVars, safeVars>>

DLERROR ==
    \/ backing = "linux" /\ DLERROR_linux
    \/ backing = "win32" /\ DLERROR_win32

InitLoader == SyncOff /\ ThreadOff /\ SafeOff /\ LoaderOff

NextLoader ==
    \/ \E filename \in Paths : DLOPEN(filename)
    \/ \E name \in Symbols : DLSYM(name)
    \/ DLCLOSE
    \/ DLERROR

SpecLoader == InitLoader /\ [][NextLoader]_vars

\* A thread inside a call, or holding the mutex, keeps running: the scheduler
\* is fair and a client that holds the mutex releases it.  Starting a new
\* call is never forced.
Progress(t) ==
    \/ Unlock(t)
    \/ CondWaitReturn_linux(t)
    \/ CondWaitBlock_win32(t)
    \/ CondWaitReturn(t)

FairSpec ==
    /\ InitSingleWaiter
    /\ [][Next]_vars
    /\ \A t \in Threads : WF_vars(Progress(t))

\* ===================================================================== C1
\* C1: for every interleaving of threads that each perform cycles of
\* MUTEX_LOCK, read-increment-write of the shared counter, MUTEX_UNLOCK, no
\* increment is lost: the counter equals the number of increments completed
\* by all threads together (K*N when each of N threads has completed K), on
\* both backings.
C1_NoLostIncrement == counter = SumOver(incsBy, Threads)

\* Two threads have each completed an increment.
C1_Witness ==
    \E t1, t2 \in Threads :
        /\ t1 # t2
        /\ incsBy[t1] >= 1
        /\ incsBy[t2] >= 1
        /\ counter = 2

\* ===================================================================== C2
\* C2: a thread that has returned from COND_WAIT owns the mutex again, on
\* every return path (0, and -1 of the emulated backing) and whatever the
\* other threads did meanwhile; it held the mutex once before the call and
\* holds it once after.
C2_WaitReturnsOwning ==
    \A t \in Threads :
        (lastCall[t] = "COND_WAIT" /\ pc[t] \in {"held", "inc"}) => mutexOwner = t

\* COND_WAIT of the emulated backing has returned -1 (and logged) owning the
\* mutex, and another thread has locked and unlocked the mutex as well.
C2_Witness ==
    \E t, u \in Threads :
        /\ t # u
        /\ backing = "win32"
        /\ lastCall[t] = "COND_WAIT" /\ pc[t] = "held" /\ ret[t] = 0 - 1
        /\ logged[t]
        /\ lastCall[u] = "MUTEX_UNLOCK"

\* ===================================================================== C3
\* C3: emulated backing, one waiter: a COND_SIGNAL that returned 0 after the
\* waiter released the mutex inside COND_WAIT is not missed; the waiter
\* eventually returns from COND_WAIT with result 0.
C3_SignalNotMissed ==
    \A t \in Threads :
        (/\ backing = "win32" /\ singleWaiter /\ condState = "valid"
         /\ pc[t] = "cw_wfso" /\ nsig[t] >= 1)
        ~> (lastCall[t] = "COND_WAIT" /\ pc[t] = "held" /\ ret[t] = 0)

\* The single waiter has returned 0 from a COND_WAIT during which it was
\* signalled.
C3_Witness ==
    /\ backing = "win32" /\ singleWaiter
    /\ lastCall[1] = "COND_WAIT" /\ pc[1] = "held" /\ ret[1] = 0
    /\ nsig[1] >= 1

C5_NoBroadcast == backing = "win32" => wakeups <= sigCalls

\* Two threads were waiting when the only signal was issued; one has
\* returned, the other is still blocked.
C5_Witness ==
    \E t1, t2 \in Threads :
        /\ t1 # t2
        /\ backing = "win32"
        /\ sigCalls = 1 /\ wakeups = 1
        /\ pc[t1] = "cw_wfso" /\ nsig[t1] = 1
        /\ lastCall[t2] = "COND_WAIT" /\ pc[t2] = "held" /\ nsig[t2] = 1

\* ===================================================================== C6
\* C6: emulated backing: with one waiter, a COND_SIGNAL issued while it waits
\* leaves it able to wake (the event stays signaled until it consumes it);
\* and a waiter that finds the event unsignaled stays blocked until a further
\* COND_SIGNAL, so that of two waiters signalled twice one can stay blocked.
C6_OneWaiterOnly ==
    /\ [](\A t \in Threads :
            (/\ backing = "win32" /\ singleWaiter /\ condState = "valid"
             /\ pc[t] = "cw_wfso" /\ nsig[t] >= 1) => event)
    /\ [][\A t \in Threads :
            (/\ backing = "win32" /\ condState = "valid"
             /\ pc[t] = "cw_wfso" /\ ~event
             /\ sigCalls' = sigCalls) => pc'[t] = "cw_wfso"]_vars

\* Two threads were both waiting while two signals were issued; one has been
\* released, the other is blocked on the unsignaled event.
C6_Witness ==
    \E t1, t2 \in Threads :
        /\ t1 # t2
        /\ backing = "win32" /\ ~singleWaiter
        /\ pc[t1] = "cw_wfso" /\ nsig[t1] = 2 /\ ~event
        /\ pc[t2] = "cw_enter" /\ wret[t2] = "WAIT_OBJECT_0" /\ nsig[t2] = 2
        /\ sigCalls = 2

\* ===================================================================== C7
\* C7: whenever THREAD_CREATE has returned a non-zero result, no thread
\* running the entry point has been started by that call.
C7_FailureMeansNoThread ==
    \A k \in Slots : (k \in tcReturned /\ tcRet[k] # 0) => thr[k] = "none"

\* ===================================================================== C8
\* C8: after THREAD_CREATE returned 0 a thread was created for the call, the
\* entry point runs at most once and, under fair scheduling, the flag it sets
\* is eventually observed by the creator; inside THREAD_CREATE the creator is
\* never blocked, whatever the created thread is doing.
C8_SpawnRunsOnce ==
    /\ [](\A k \in Slots : runs[k] <= 1)
    /\ [](\A k \in Slots : (k \in tcReturned /\ tcRet[k] = 0) => thr[k] # "none")
    /\ [](InCall => ENABLED CreatorReturn)
    /\ \A k \in Slots :
          (k \in tcReturned /\ tcRet[k] = 0) ~> (seen[k] /\ runs[k] = 1)

\* The entry point has run before THREAD_CREATE returned.
C8_Witness ==
    /\ InCall
    /\ tcSlot \in Slots
    /\ tcSlot \notin tcReturned
    /\ flag[tcSlot] /\ thr[tcSlot] = "exited"

\* ===================================================================== C9
\* C9: a MUTEX_UNLOCK called by a thread that does not own the mutex returns
\* a non-zero result and logs an error, and the process goes on.
C9_UnlockByNonOwnerReported ==
    \A t \in misuse :
        lastCall[t] = "MUTEX_UNLOCK" => (ret[t] # THREAD_OK /\ logged[t] /\ hostAlive)

\* ==================================================================== C10
\* C10: every finished os_safe_call on a faulting function returned Faulted
\* and every one on a well-behaved function returned Completed, whatever the
\* earlier calls did, and the host has not been terminated.
C10_ResultPerCall ==
    /\ hostAlive
    /\ \A i \in 1..Len(scHist) :
          scHist[i][2] = IF scHist[i][1] = "faults" THEN "Faulted" ELSE "Completed"

\* A call that faulted, then one that completed, then one that faulted again.
C10_Witness ==
    \E i \in 1..Len(scHist) :
        /\ i + 2 <= Len(scHist)
        /\ scHist[i] = <<"faults", "Faulted">>
        /\ scHist[i + 1] = <<"returns", "Completed">>
        /\ scHist[i + 2] = <<"faults", "Faulted">>

\* ==================================================================== C11
\* C11: each os_safe_call goes NotStarted -> Invoking -> Completed or Faulted
\* (and from there to NotStarted of the next call), and the fault boundary is
\* established exactly while the call is in Invoking: never between two
\* calls, and neither after the Completed nor after the Faulted exit.
SafeCallTransitions ==
    {<<"NotStarted", "Invoking">>, <<"Invoking", "Completed">>,
     <<"Invoking", "Faulted">>, <<"Completed", "NotStarted">>,
     <<"Faulted", "NotStarted">>}

C11_BoundaryPerCall ==
    /\ [](armed <=> scState = "Invoking")
    /\ [][scState' # scState => <<scState, scState'>> \in SafeCallTransitions]_vars

\* Between two calls, after a call that faulted and one that completed.
C11_Witness ==
    /\ scState = "NotStarted" /\ ~armed
    /\ \E i, j \in 1..Len(scHist) :
          scHist[i][2] = "Faulted" /\ scHist[j][2] = "Completed"

\* ==================================================================== C12
\* C12: DLSYM on an open handle with a name the module does not export returns
\* the null result on each of any number of repeated calls, and leaves the
\* handle open: a later DLSYM of an exported name on it still returns the
\* symbol, and the handle is still open when DLCLOSE is called on it.
C12_MissIsNotFound ==
    \A i \in 1..Len(ldHist) :
        ldHist[i].op = "DLSYM" =>
            /\ ldHist[i].h = "open"
            /\ ldHist[i].arg \notin Exports => ldHist[i].res = "NULL"
            /\ ldHist[i].arg \in Exports => ldHist[i].res = "ptr"

\* Two misses in a row, then a hit and a successful DLCLOSE on the same handle.
C12_Witness ==
    \E i \in 1..Len(ldHist) :
        /\ i + 3 <= Len(ldHist)
        /\ ldHist[i].op = "DLSYM" /\ ldHist[i].res = "NULL"
        /\ ldHist[i + 1].op = "DLSYM" /\ ldHist[i + 1].res = "NULL"
        /\ ldHist[i + 2].op = "DLSYM" /\ ldHist[i + 2].res = "ptr"
        /\ ldHist[i + 3].op = "DLCLOSE" /\ ldHist[i + 3].ret = 0

\* ==================================================================== C13
\* The failing loader calls made before call i, the latest of them, and the
\* description a call leaves in the last-error slot when it fails.
IsFailure(j) == ldHist[j].op # "DLERROR" /\ ~ldHist[j].ok

Failures(i) == {j \in 1..(i - 1) : IsFailure(j)}

LastFailure(i) == CHOOSE j \in Failures(i) : \A k \in Failures(i) : k <= j

DescOf(j) == Desc(ldHist[j].op, ldHist[j].arg)

\* C13 as stated: within one calling context, after two failing loader calls
\* f1 and then f2, every DLERROR call made before the next failing call
\* returns the description of f2, not that of f1 and not an empty result.
C13_EveryReadIsLatestFailure ==
    \A i \in 1..Len(ldHist) :
        (ldHist[i].op = "DLERROR" /\ Cardinality(Failures(i)) >= 2) =>
            ldHist[i].err = DescOf(LastFailure(i))

\* C13, amended: a DLERROR call made directly after a failing loader call
\* returns the description of that call, whatever failed before it; on the
\* linux backing the read empties the slot, so a DLERROR call made directly
\* after another DLERROR call returns the empty result.
C13_FirstReadIsLatestFailure ==
    \A i \in 2..Len(ldHist) :
        ldHist[i].op = "DLERROR" =>
            /\ IsFailure(i - 1) => ldHist[i].err = DescOf(i - 1)
            /\ (backing = "linux" /\ ldHist[i - 1].op = "DLERROR") =>
                   ldHist[i].err = NoError

\* f1, then f2 with another description, then DLERROR twice on linux: the
\* first read gave the description of f2, the second the empty result.
C13_Witness ==
    /\ backing = "linux"
    /\ \E i \in 1..Len(ldHist) :
        /\ i + 3 <= Len(ldHist)
        /\ IsFailure(i) /\ IsFailure(i + 1) /\ DescOf(i) # DescOf(i + 1)
        /\ ldHist[i + 2].op = "DLERROR" /\ ldHist[i + 2].err = DescOf(i + 1)
        /\ ldHist[i + 3].op = "DLERROR" /\ ldHist[i + 3].err = NoError

\* ==================================================================== C14
\* C14: DLCLOSE returns 0 exactly when the native release succeeded and a
\* non-zero value exactly when it failed, on both backings; the Win32 backing
\* inverts FreeLibrary's result to get there.
C14_CloseResultConvention ==
    \A i \in 1..Len(ldHist) :
        ldHist[i].op = "DLCLOSE" =>
            /\ ldHist[i].ret = 0 <=> ldHist[i].ok
            /\ ldHist[i].ok <=> ldHist[i].h = "closed"

\* On win32, a DLCLOSE whose FreeLibrary failed and a later one that
\* succeeded.
C14_Witness ==
    /\ backing = "win32"
    /\ \E i, j \in 1..Len(ldHist) :
        /\ i < j
        /\ ldHist[i].op = "DLCLOSE" /\ ~ldHist[i].ok /\ ldHist[i].ret # 0
        /\ ldHist[j].op = "DLCLOSE" /\ ldHist[j].ok /\ ldHist[j].ret = 0

\* ==================================================================== C15
\* A step in which WaitForSingleObject releases thread t.
Consumes(t) ==
    /\ pc[t] = "cw_wfso"
    /\ pc'[t] = "cw_enter"
    /\ wret'[t] = "WAIT_OBJECT_0"

\* C15: emulated backing: the signal state is one bit.  However many
\* COND_SIGNAL calls preceded it, the release of one COND_WAIT uses the whole
\* signal state up (the event is unsignaled afterwards); while the event is
\* unsignaled no COND_WAIT is released; and only a new COND_SIGNAL makes the
\* event signaled again.
C15_SignalStateIsOneBit ==
    /\ [][(backing = "win32" /\ condState = "valid") =>
            \A t \in Threads : Consumes(t) => (event /\ ~event')]_vars
    /\ [][(backing = "win32" /\ condState = "valid" /\ ~event) =>
            \A t \in Threads : pc[t] = "cw_wfso" => pc'[t] = "cw_wfso"]_vars
    /\ [][(backing = "win32" /\ ~event /\ event') =>
            sigCalls' = sigCalls + 1]_vars

\* Two signals were issued while no thread waited; one COND_WAIT has returned
\* on them, and the COND_WAIT after it is blocked on the unsignaled event.
C15_Witness ==
    /\ backing = "win32" /\ condState = "valid"
    /\ sigCalls = 2 /\ wakeups = 1 /\ ~event
    /\ \A t \in Threads : pc[t] # "cw_enter" /\ nsig[t] = 0
    /\ \E t \in Threads : pc[t] = "cw_wfso"

\* ==================================================================== C16
\* The state of thread t as a native condition variable has it: "out" of
\* COND_WAIT, "blocked" in it, or "woken" in it and about to take the mutex
\* back.  On the emulated backing a thread that has left the critical section
\* is blocked while the event is unsignaled.
EmuStatus(t) ==
    IF pc[t] = "cw_wfso" THEN (IF event THEN "woken" ELSE "blocked")
    ELSE IF pc[t] = "cw_enter" THEN "woken"
    ELSE "out"

\* What a step of the native condition variable may do to the threads it is
\* not about: nothing, or wake a blocked one spuriously.
NativeFrame(S) ==
    \A u \in Threads \ S :
        \/ EmuStatus(u)' = EmuStatus(u)
        \/ EmuStatus(u) = "blocked" /\ EmuStatus(u)' = "woken"

\* pthread_cond_wait is entered: the caller owns the mutex, releases it and
\* blocks (and may be woken at once, spuriously).
N_WaitEnter(t) ==
    /\ EmuStatus(t) = "out"
    /\ EmuStatus(t)' \in {"blocked", "woken"}
    /\ mutexOwner = t /\ mutexOwner' = NoOwner
    /\ sigCalls' = sigCalls
    /\ NativeFrame({t})

\* pthread_cond_wait returns: the caller was woken, takes the free mutex and
\* returns 0.
N_WaitReturn(t) ==
    /\ EmuStatus(t) = "woken"
    /\ EmuStatus(t)' = "out"
    /\ mutexOwner = NoOwner /\ mutexOwner' = t
    /\ ret'[t] = 0 /\ lastCall'[t] = "COND_WAIT"
    /\ sigCalls' = sigCalls
    /\ NativeFrame({t})

\* pthread_cond_signal: returns 0; if threads are blocked, at least one of
\* them is woken.
N_Signal(t) ==
    /\ EmuStatus(t) = "out"
    /\ sigCalls' = sigCalls + 1
    /\ ret'[t] = 0 /\ lastCall'[t] = "COND_SIGNAL"
    /\ mutexOwner' = mutexOwner
    /\ (\E u \in Threads : EmuStatus(u) = "blocked") =>
           (\E u \in Threads : EmuStatus(u) = "blocked" /\ EmuStatus(u)' = "woken")
    /\ NativeFrame({})

\* The mutex is locked or unlocked by a thread outside COND_WAIT.
N_Mutex(t) ==
    /\ EmuStatus(t) = "out"
    /\ \/ mutexOwner = NoOwner /\ mutexOwner' = t
       \/ mutexOwner = t /\ mutexOwner' = NoOwner
    /\ sigCalls' = sigCalls
    /\ NativeFrame({})

\* Nothing observable happens; a blocked thread may wake spuriously.
N_Internal ==
    /\ mutexOwner' = mutexOwner
    /\ sigCalls' = sigCalls
    /\ NativeFrame({})

NativeNext ==
    \/ \E t \in Threads : N_WaitEnter(t)
    \/ \E t \in Threads : N_WaitReturn(t)
    \/ \E t \in Threads : N_Signal(t)
    \/ \E t \in Threads : N_Mutex(t)
    \/ N_Internal

\* C16: with at most one thread ever waiting on the condition, the emulated
\* backing refines the native condition variable: every step it takes on an
\* initialised condition (a COND_WAIT entered or returning, a COND_SIGNAL, a
\* change of mutex owner) is a step the native condition variable with
\* spurious wake-ups allows.
C16_EmulationRefinesNative ==
    [][(backing = "win32" /\ singleWaiter /\ condState = "valid") =>
        NativeNext]_vars

\* The single waiter has returned 0 from a COND_WAIT that no COND_SIGNAL was
\* issued during: it consumed an earlier signal, which the native condition
\* variable allows as a spurious wake-up.
C16_Witness ==
    /\ backing = "win32" /\ singleWaiter /\ condState = "valid"
    /\ lastCall[1] = "COND_WAIT" /\ pc[1] = "held" /\ ret[1] = 0
    /\ nsig[1] = 0 /\ sigCalls >= 1 /\ wakeups >= 1

====
